---------------------------- MODULE Spec2Model ----------------------------
(***************************************************************************)
(* A model of python-swat's native-extension build step (setup.py,        *)
(* BuildExtCommand) and of its runtime binding bridge (swat/clib.py).     *)
(*                                                                         *)
(* Strings that the code inspects (sys.platform, platform.machine(), the  *)
(* PLAT variable) are sequences of one-character strings; file-system     *)
(* paths are sequences of path components; os.environ and the per-call    *)
(* env dicts are functions whose DOMAIN is the set of variables that are   *)
(* set, so that "unset" and "set to the empty string" differ.             *)
(***************************************************************************)
EXTENDS Naturals, Sequences, FiniteSets, TLC

VARIABLES
    \* ---- host process (shared by both files)
    sys_platform,     \* sys.platform
    machine,          \* platform.machine()
    environ,          \* os.environ
    \* ---- swat/clib.py
    bpc,              \* "start" | "idle" | "native" | "import_error"
    ext_state,        \* what "import _pyswat" finds: "ok" | "missing" | "broken"
    _pyswat_loaded,   \* module global _pyswat_loaded
    _pyswat,          \* module global _pyswat: "unbound" | "module"
    load_attempts,    \* number of times "import _pyswat" was executed
    set_tkpath_env,   \* local of the InitializeTK call in flight
    tk_args,          \* *args of the InitializeTK call in flight
    tk_before,        \* os.environ when the InitializeTK call in flight began
    last,             \* what the last call of the bridge did
    \* ---- setup.py, BuildExtCommand.build_extension
    pc,               \* "idle", or the command build_extension runs next
    builds,           \* number of build_extension invocations begun
    platform,         \* local: "win" | "osx" | "unix" ("" before it is set)
    tempdir,          \* local: the staging workspace (<<>> outside the with block)
    env,              \* local: the env dict handed to _check_call
    ext,              \* the Extension object (the build description)
    dirs,             \* staging directories that exist on disk
    created,          \* number of tempfile.mkdtemp() calls so far
    rmtree_log,       \* the directories shutil.rmtree was called on, in order
    cmdlog,           \* the commands the current (or last) invocation ran
    result,           \* how the last invocation of build_extension ended
    gcc_exists        \* os.path.isfile('/usr/bin/gcc')

bridge_vars == <<bpc, ext_state, _pyswat_loaded, _pyswat, load_attempts,
                 set_tkpath_env, tk_args, tk_before, last>>
host_vars == <<sys_platform, machine, environ>>
build_vars == <<pc, builds, platform, tempdir, env, ext, dirs, created,
                rmtree_log, cmdlog, result, gcc_exists>>

-----------------------------------------------------------------------------
(* Python string builtins used by the code, on sequences of characters.    *)

UpperChars == <<"A","B","C","D","E","F","G","H","I","J","K","L","M",
                "N","O","P","Q","R","S","T","U","V","W","X","Y","Z">>
LowerChars == <<"a","b","c","d","e","f","g","h","i","j","k","l","m",
                "n","o","p","q","r","s","t","u","v","w","x","y","z">>

\* str.lower() on one character
LowerChar(c) ==
    IF \E i \in DOMAIN UpperChars : UpperChars[i] = c
    THEN LowerChars[CHOOSE i \in DOMAIN UpperChars : UpperChars[i] = c]
    ELSE c

\* str.lower()
Lower(s) == [i \in DOMAIN s |-> LowerChar(s[i])]

\* str.startswith(p)
StartsWith(s, p) == Len(s) >= Len(p) /\ SubSeq(s, 1, Len(p)) = p

\* p in s
Contains(s, p) ==
    \E i \in 1..(Len(s) + 1) :
        i + Len(p) - 1 <= Len(s) /\ SubSeq(s, i, i + Len(p) - 1) = p

\* dict item assignment d[k] = v
DictSet(d, k, v) == [x \in DOMAIN d \cup {k} |-> IF x = k THEN v ELSE d[x]]

\* del d[k], for a key that is present
DictDel(d, k) == [x \in DOMAIN d \ {k} |-> d[x]]

\* a merge in which d's items win over e's
DictMerge_hostwins(d, e) == [x \in DOMAIN d \cup DOMAIN e |-> IF x \in DOMAIN d THEN d[x] ELSE e[x]]

\* dict(d, **e): e's items laid over d's
DictMerge(d, e) == [x \in DOMAIN d \cup DOMAIN e |-> IF x \in DOMAIN e THEN e[x] ELSE d[x]]

EmptyDict == [x \in {} |-> <<>>]

-----------------------------------------------------------------------------
(* Inputs of the model.                                                    *)

win32  == <<"w","i","n","3","2">>
Win32  == <<"W","i","n","3","2">>
darwin == <<"d","a","r","w","i","n">>
linux  == <<"l","i","n","u","x">>
cygwin == <<"c","y","g","w","i","n">>
DARWIN == <<"D","A","R","W","I","N">>
darwi  == <<"d","a","r","w","i">>
wi     == <<"w","i">>
PlatformStrings == {win32, Win32, darwin, DARWIN, linux, cygwin, darwi, wi, <<>>}

ppc64le == <<"p","p","c","6","4","l","e">>
x86_64  == <<"x","8","6","_","6","4">>
Machines == {ppc64le, x86_64}

\* os.pathsep
pathsep == IF StartsWith(Lower(sys_platform), <<"w","i","n">>) THEN <<";">> ELSE <<":">>

\* longest argument list handed to InitializeTK
MaxArgs == 2
TkPaths == {<<"tk1">>, <<"tk2">>}
ArgLists == UNION {[1..n -> TkPaths] : n \in 0..MaxArgs}


\* results handed to errorcheck
Results == {"r0", "r42"}

\* last-error messages of a native handle: text (a str) or UTF-8 bytes,
\* as code points / byte values; the empty message means "no error"
Messages ==
    {[kind |-> "text",  data |-> <<>>],
     [kind |-> "text",  data |-> <<99>>],
     [kind |-> "text",  data |-> <<233>>],
     [kind |-> "bytes", data |-> <<>>],
     [kind |-> "bytes", data |-> <<99>>],
     [kind |-> "bytes", data |-> <<195, 169>>]}

NoMessage == [kind |-> "text", data |-> <<>>]

\* the obj argument of errorcheck: None, or a handle with its message
NoneObj == [isNone |-> TRUE, msg |-> NoMessage]
Handles == {[isNone |-> FALSE, msg |-> m] : m \in Messages}

-----------------------------------------------------------------------------
(* swat/clib.py                                                            *)

Constructors == {"SW_CASConnection", "SW_CASValueList", "SW_CASFormatter",
                 "SW_CASConnectionEventWatcher", "SW_CASDataBuffer", "SW_CASError"}

\* the record of one call of the bridge
Call(op, outcome, err, native) ==
    [op |-> op, outcome |-> outcome, err |-> err, native |-> native,
     value |-> "", msg |-> <<>>, expr |-> "", obj |-> NoneObj, queried |-> FALSE,
     args |-> <<>>, before |-> EmptyDict, nat |-> ""]

NoCall == Call("none", "none", "", FALSE)

\* bytes.decode('utf-8') on well-formed input of one- and two-byte sequences
RECURSIVE Utf8Decode(_)
Utf8Decode(b) ==
    IF b = <<>> THEN <<>>
    ELSE IF b[1] < 128 THEN <<b[1]>> \o Utf8Decode(Tail(b))
    ELSE <<(b[1] - 192) * 64 + (b[2] - 128)>> \o Utf8Decode(Tail(Tail(b)))

\* a2u(msg, 'utf-8'): bytes are decoded, text is passed through
a2u(m) == IF m.kind = "bytes" THEN Utf8Decode(m.data) ELSE m.data

\* obj.getLastErrorMessage()
getLastErrorMessage(obj) == obj.msg

\* truth value of a str / bytes
Truthy(m) == m.data # <<>>

\* errorcheck without the "obj is not None" test: None has no
\* getLastErrorMessage attribute
errorcheck_unguarded(expr, obj) ==
    IF obj.isNone
    THEN [outcome |-> "raised", err |-> "AttributeError", value |-> "",
          msg |-> <<>>, queried |-> TRUE]
    ELSE IF Truthy(getLastErrorMessage(obj))
    THEN [outcome |-> "raised", err |-> "SWATError", value |-> "",
          msg |-> a2u(getLastErrorMessage(obj)), queried |-> TRUE]
    ELSE [outcome |-> "returned", err |-> "", value |-> expr,
          msg |-> <<>>, queried |-> TRUE]

\* errorcheck(expr, obj)
errorcheck(expr, obj) ==
    IF ~obj.isNone
    THEN LET msg == getLastErrorMessage(obj)
         IN  IF Truthy(msg)
             THEN [outcome |-> "raised", err |-> "SWATError", value |-> "",
                   msg |-> a2u(msg), queried |-> TRUE]
             ELSE [outcome |-> "returned", err |-> "", value |-> expr,
                   msg |-> <<>>, queried |-> TRUE]
    ELSE [outcome |-> "returned", err |-> "", value |-> expr,
          msg |-> <<>>, queried |-> FALSE]

\* a call of errorcheck from any call site
ErrorCheck ==
    /\ bpc = "idle"
    /\ \E expr \in Results, obj \in Handles \cup {NoneObj} :
         LET r == errorcheck(expr, obj)
         IN  last' = [Call("errorcheck", r.outcome, r.err, FALSE) EXCEPT
                        !.value = r.value, !.msg = r.msg, !.expr = expr,
                        !.obj = obj, !.queried = r.queried]
    /\ UNCHANGED <<bpc, ext_state, _pyswat_loaded, _pyswat, load_attempts,
                   set_tkpath_env, tk_args, tk_before>>
    /\ UNCHANGED host_vars
    /\ UNCHANGED build_vars

\* the module-level import without its try/except
ImportModule_uncaught ==
    /\ bpc = "start"
    /\ load_attempts' = load_attempts + 1
    /\ IF ext_state = "ok"
       THEN /\ _pyswat_loaded' = TRUE
            /\ _pyswat' = "module"
            /\ bpc' = "idle"
       ELSE /\ _pyswat_loaded' = FALSE
            /\ _pyswat' = "unbound"
            /\ bpc' = "import_error"
    /\ UNCHANGED <<ext_state, set_tkpath_env, tk_args, tk_before, last>>
    /\ UNCHANGED host_vars
    /\ UNCHANGED build_vars

\* import of swat.clib: the try/except around "import _pyswat".  A missing
\* extension raises ImportError, which is caught; an extension whose
\* initialisation raises another error makes the import of the module fail.
ImportModule ==
    /\ bpc = "start"
    /\ load_attempts' = load_attempts + 1
    /\ IF ext_state = "ok"
       THEN /\ _pyswat_loaded' = TRUE
            /\ _pyswat' = "module"
            /\ bpc' = "idle"
       ELSE /\ _pyswat_loaded' = FALSE
            /\ _pyswat' = "unbound"
            /\ bpc' = IF ext_state = "missing" THEN "idle" ELSE "import_error"
    /\ UNCHANGED <<ext_state, set_tkpath_env, tk_args, tk_before, last>>
    /\ UNCHANGED host_vars
    /\ UNCHANGED build_vars

\* _pyswat_error(): the error raised when the extension is not loaded
\* (its text sends the caller to the REST interface)
pyswat_error == "ValueError"

\* a forwarding entry point that imports the extension again when it is
\* not loaded
Forward_reload(name) ==
    /\ bpc = "idle"
    /\ IF ~_pyswat_loaded
       THEN /\ load_attempts' = load_attempts + 1
            /\ last' = Call(name, "raised", pyswat_error, FALSE)
       ELSE /\ load_attempts' = load_attempts
            /\ \E nat \in {"return", "raise"} :
                 last' = IF nat = "return"
                         THEN [Call(name, "returned", "", TRUE) EXCEPT !.value = "native_obj", !.nat = nat]
                         ELSE [Call(name, "raised", "NativeError", TRUE) EXCEPT !.nat = nat]
    /\ UNCHANGED <<bpc, ext_state, _pyswat_loaded, _pyswat,
                   set_tkpath_env, tk_args, tk_before>>
    /\ UNCHANGED host_vars
    /\ UNCHANGED build_vars

\* the body shared by the six forwarding entry points: test _pyswat_loaded,
\* raise through _pyswat_error(), else call the native constructor
Forward(name) ==
    /\ bpc = "idle"
    /\ IF ~_pyswat_loaded
       THEN last' = Call(name, "raised", pyswat_error, FALSE)
       ELSE \E nat \in {"return", "raise"} :
              last' = IF nat = "return"
                      THEN [Call(name, "returned", "", TRUE) EXCEPT !.value = "native_obj", !.nat = nat]
                      ELSE [Call(name, "raised", "NativeError", TRUE) EXCEPT !.nat = nat]
    /\ UNCHANGED <<bpc, ext_state, _pyswat_loaded, _pyswat, load_attempts,
                   set_tkpath_env, tk_args, tk_before>>
    /\ UNCHANGED host_vars
    /\ UNCHANGED build_vars

SW_CASConnection == Forward("SW_CASConnection")
SW_CASValueList == Forward("SW_CASValueList")
SW_CASFormatter == Forward("SW_CASFormatter")
SW_CASConnectionEventWatcher == Forward("SW_CASConnectionEventWatcher")
SW_CASDataBuffer == Forward("SW_CASDataBuffer")
SW_CASError == Forward("SW_CASError")

\* sys.platform.lower().startswith('win')
IsWin == StartsWith(Lower(sys_platform), <<"w","i","n">>)

\* InitializeTK with a lazy import: when the name _pyswat is not bound the
\* extension is imported again and the load flag is set
InitializeTK_enter_lazy ==
    /\ bpc = "idle"
    /\ \E args \in ArgLists :
         LET s == Contains(machine, <<"p","p","c">>) /\ "TKPATH" \notin DOMAIN environ
         IN  /\ set_tkpath_env' = s
             /\ tk_args' = args
             /\ tk_before' = environ
             /\ environ' = IF s /\ args # <<>>
                           THEN DictSet(environ, "TKPATH", args[1])
                           ELSE environ
             /\ bpc' = "native"
             /\ UNCHANGED last
    /\ _pyswat_loaded' = TRUE
    /\ _pyswat' = "module"
    /\ load_attempts' = IF _pyswat = "unbound" THEN load_attempts + 1 ELSE load_attempts
    /\ UNCHANGED ext_state
    /\ UNCHANGED <<sys_platform, machine>>
    /\ UNCHANGED build_vars

\* InitializeTK, up to the native call: the test of the global _pyswat
\* (a NameError when the import failed and the name was never bound) and
\* the ppc patch of TKPATH
InitializeTK_enter ==
    /\ bpc = "idle"
    /\ \E args \in ArgLists :
         IF _pyswat = "unbound"
         THEN /\ last' = [Call("InitializeTK", "raised", "NameError", FALSE) EXCEPT
                            !.args = args, !.before = environ]
              /\ UNCHANGED <<bpc, set_tkpath_env, tk_args, tk_before, environ>>
         ELSE LET s == Contains(machine, <<"p","p","c">>) /\ "TKPATH" \notin DOMAIN environ
              IN  /\ set_tkpath_env' = s
                  /\ tk_args' = args
                  /\ tk_before' = environ
                  /\ environ' = IF s /\ args # <<>>
                                THEN DictSet(environ, "TKPATH", args[1])
                                ELSE environ
                  /\ bpc' = "native"
                  /\ UNCHANGED last
    /\ UNCHANGED <<ext_state, _pyswat_loaded, _pyswat, load_attempts>>
    /\ UNCHANGED <<sys_platform, machine>>
    /\ UNCHANGED build_vars

\* what the finally clause of InitializeTK does to os.environ, and whether
\* its "del os.environ['TKPATH']" raises KeyError (the rest of the clause is
\* then skipped)
Finally(e, set) ==
    LET keyerror == set /\ "TKPATH" \notin DOMAIN e
        e1 == IF set /\ ~keyerror THEN DictDel(e, "TKPATH") ELSE e
        e2 == IF ~keyerror /\ IsWin /\ "TKPATH" \notin DOMAIN e1
              THEN DictSet(e1, "TKPATH", pathsep)
              ELSE e1
    IN  [environ |-> e2, keyerror |-> keyerror]

\* InitializeTK, from the native call on: the call returns or raises, the
\* finally clause runs, and the caller sees the result, the native error,
\* or the error of the finally clause
InitializeTK_exit ==
    /\ bpc = "native"
    /\ \E nat \in {"return", "raise"} :
         LET f == Finally(environ, set_tkpath_env)
             c == IF f.keyerror THEN Call("InitializeTK", "raised", "KeyError", TRUE)
                  ELSE IF nat = "raise" THEN Call("InitializeTK", "raised", "NativeError", TRUE)
                  ELSE [Call("InitializeTK", "returned", "", TRUE) EXCEPT !.value = "out"]
         IN  /\ environ' = f.environ
             /\ last' = [c EXCEPT !.args = tk_args, !.before = tk_before, !.nat = nat]
    /\ bpc' = "idle"
    /\ set_tkpath_env' = FALSE
    /\ tk_args' = <<>>
    /\ tk_before' = EmptyDict
    /\ UNCHANGED <<ext_state, _pyswat_loaded, _pyswat, load_attempts>>
    /\ UNCHANGED <<sys_platform, machine>>
    /\ UNCHANGED build_vars

\* Extension('_pyswat', []): the build description as setup() creates it
NewExtension ==
    [sources |-> <<>>, extra_compile_args |-> <<>>,
     include_dirs |-> <<>>, extra_link_args |-> <<>>]

NoResult == [outcome |-> "none", err |-> "", hint |-> ""]

\* build_extension has not been invoked
BuildIdle ==
    /\ pc = "idle"
    /\ builds = 0
    /\ platform = ""
    /\ tempdir = <<>>
    /\ env = EmptyDict
    /\ ext = NewExtension
    /\ dirs = {}
    /\ created = 0
    /\ rmtree_log = <<>>
    /\ cmdlog = <<>>
    /\ result = NoResult
    /\ gcc_exists = FALSE

\* values of TKPATH in the host environment before the bridge is used
InitialTkPaths == {<<"tk0">>}

InitBridge ==
    /\ sys_platform \in PlatformStrings
    /\ machine \in Machines
    /\ environ \in {EmptyDict} \cup {[x \in {"TKPATH"} |-> v] : v \in InitialTkPaths}
    /\ bpc = "start"
    /\ ext_state \in {"ok", "missing", "broken"}
    /\ _pyswat_loaded = FALSE
    /\ _pyswat = "unbound"
    /\ load_attempts = 0
    /\ set_tkpath_env = FALSE
    /\ tk_args = <<>>
    /\ tk_before = EmptyDict
    /\ last = NoCall
    /\ BuildIdle

NextBridge ==
    \/ ImportModule
    \/ SW_CASConnection
    \/ SW_CASValueList
    \/ SW_CASFormatter
    \/ SW_CASConnectionEventWatcher
    \/ SW_CASDataBuffer
    \/ SW_CASError
    \/ InitializeTK_enter
    \/ InitializeTK_exit
    \/ ErrorCheck

vars == <<sys_platform, machine, environ, bpc, ext_state, _pyswat_loaded, _pyswat,
          load_attempts, set_tkpath_env, tk_args, tk_before, last,
          pc, builds, platform, tempdir, env, ext, dirs, created,
          rmtree_log, cmdlog, result, gcc_exists>>

SpecBridge == InitBridge /\ [][NextBridge]_vars

-----------------------------------------------------------------------------
(* Properties of swat/clib.py, checked under SpecBridge.                   *)

ppc == <<"p","p","c">>

\* C1: errorcheck(result, handle) returns result unchanged when the handle
\* is None or its last-error message is empty, raises SWATError carrying
\* exactly the (decoded) message and returns nothing when the handle has a
\* non-empty message, whatever result is; a None handle is never queried.
C1_ErrorCheck ==
    last.op = "errorcheck" =>
        /\ (last.obj.isNone \/ last.obj.msg.data = <<>>) =>
              /\ last.outcome = "returned"
              /\ last.value = last.expr
              /\ last.err = ""
        /\ (~last.obj.isNone /\ last.obj.msg.data # <<>>) =>
              /\ last.outcome = "raised"
              /\ last.err = "SWATError"
              /\ last.msg = (IF last.obj.msg.kind = "bytes"
                             THEN Utf8Decode(last.obj.msg.data)
                             ELSE last.obj.msg.data)
              /\ last.value = ""
        /\ last.obj.isNone => ~last.queried

\* a handle whose message is the two UTF-8 bytes of U+00E9 made errorcheck
\* raise SWATError with the one decoded character
C1_Witness ==
    /\ last.op = "errorcheck"
    /\ last.obj.msg = [kind |-> "bytes", data |-> <<195, 169>>]
    /\ last.expr = "r42"
    /\ last.outcome = "raised"
    /\ last.msg = <<233>>

\* C2: once the import-time load has failed, every call of one of the six
\* constructor entry points raises the error of _pyswat_error() before any
\* native call, and the extension is never imported again.
C2_FailedLoadAlwaysRaises ==
    (bpc # "start" /\ ~_pyswat_loaded) =>
        /\ load_attempts = 1
        /\ last.op \in Constructors =>
              /\ last.outcome = "raised"
              /\ last.err = pyswat_error
              /\ ~last.native

\* after a failed load, SW_CASError was called and raised
C2_Witness ==
    /\ bpc = "idle"
    /\ ~_pyswat_loaded
    /\ last.op = "SW_CASError"
    /\ last.outcome = "raised"
    /\ last.err = "ValueError"

\* C3: with the compiled extension missing, importing the bridge does not
\* raise: the load state is recorded as failed, the import completes, and
\* the failure shows at a later call of a constructor entry point.
C3_ImportNeverRaises ==
    (ext_state = "missing" /\ bpc # "start") =>
        /\ bpc # "import_error"
        /\ ~_pyswat_loaded
        /\ last.op \in Constructors =>
              (last.outcome = "raised" /\ last.err = pyswat_error)

\* the extension was missing, the import completed, and the first
\* forwarding call raised
C3_Witness ==
    /\ ext_state = "missing"
    /\ bpc = "idle"
    /\ last.op = "SW_CASConnection"
    /\ last.outcome = "raised"

\* C4: with the load failed, InitializeTK raises the same error as the
\* constructor entry points, before changing TKPATH and before any native
\* call.
C4_InitializeTKUnavailable ==
    (bpc = "idle" /\ ~_pyswat_loaded /\ last.op = "InitializeTK") =>
        /\ last.outcome = "raised"
        /\ last.err = pyswat_error
        /\ ~last.native
        /\ environ = last.before

\* C10: on a ppc host where TKPATH was unset before InitializeTK, for every
\* argument list and on every exit of the native call, TKPATH is unset again
\* on a non-Windows host, the cleanup raises nothing, and an error of the
\* native call is the error the caller sees.
C10_ScopedTkpath ==
    (/\ bpc = "idle"
     /\ last.op = "InitializeTK"
     /\ last.native
     /\ Contains(machine, ppc)
     /\ "TKPATH" \notin DOMAIN last.before) =>
        /\ ~IsWin => "TKPATH" \notin DOMAIN environ
        /\ last.err # "KeyError"
        /\ last.nat = "raise" => last.err = "NativeError"

\* C11: the binding load state is decided once, at import time, and is
\* never written again: no forwarding call, InitializeTK call or errorcheck
\* call after the import changes _pyswat_loaded (or rebinds _pyswat).
C11_LoadStateWrittenOnce ==
    [][bpc # "start" => (_pyswat_loaded' = _pyswat_loaded /\ _pyswat' = _pyswat)]_vars

\* the extension loaded, and InitializeTK has since been called and returned
C11_Witness ==
    /\ bpc = "idle"
    /\ _pyswat_loaded
    /\ last.op = "InitializeTK"
    /\ last.outcome = "returned"

\* C16: when InitializeTK has made the native call and exits, whether the
\* native call returned or raised: on a Windows host TKPATH is set, to its
\* value from before the call if it had one and to os.pathsep otherwise; on
\* every host a TKPATH that was set before the call keeps its value.
C16_WindowsSentinel ==
    (/\ bpc = "idle"
     /\ last.op = "InitializeTK"
     /\ last.native) =>
        /\ IsWin =>
             /\ "TKPATH" \in DOMAIN environ
             /\ environ["TKPATH"] = IF "TKPATH" \in DOMAIN last.before
                                    THEN last.before["TKPATH"]
                                    ELSE pathsep
        /\ "TKPATH" \in DOMAIN last.before =>
             /\ "TKPATH" \in DOMAIN environ
             /\ environ["TKPATH"] = last.before["TKPATH"]

\* the same property on the calls whose finally clause completes
C16_SentinelWhenCleanupCompletes ==
    (/\ bpc = "idle"
     /\ last.op = "InitializeTK"
     /\ last.native
     /\ last.err # "KeyError") => C16_WindowsSentinel

\* a Windows host with TKPATH unset: the call returned and left the sentinel
C16_SentinelSet ==
    /\ bpc = "idle"
    /\ last.op = "InitializeTK"
    /\ last.outcome = "returned"
    /\ IsWin
    /\ "TKPATH" \notin DOMAIN last.before
    /\ environ["TKPATH"] = pathsep

-----------------------------------------------------------------------------
(* setup.py: BuildExtCommand.build_extension                               *)
(*                                                                         *)
(* build_extension is a sequence of blocking external commands.  pc names  *)
(* the command that runs next; one action is that command, with its        *)
(* outcome, together with the Python code up to the next command or up to *)
(* the exit of the function (the release of the workspace included).      *)

\* number of build_extension invocations explored
MaxBuilds == 2

\* subprocess.check_call: exit status 0, a non-zero exit status
\* (CalledProcessError), or no such binary (OSError)
Outcomes == {"ok", "nonzero", "notfound"}

\* the error subprocess.check_call raises for an outcome that is not "ok"
SubprocessError(out) == IF out = "nonzero" THEN "CalledProcessError" ELSE "OSError"

\* module constants LIBSWAT_ROOT (as path components), GO_GET_FLAGS, GO_BUILD_FLAGS
LIBSWAT_ROOT == <<"gitlab.sas.com", "kesmit", "go-libswat">>
GO_GET_FLAGS == <<"-","i","n","s","e","c","u","r","e">>
GO_BUILD_FLAGS == <<>>

\* os.getcwd(), sys.prefix
cwd == <<"cwd">>
prefix == <<"prefix">>

\* os.environ.get(k, default)
EnvGet(d, k, default) == IF k \in DOMAIN d THEN d[k] ELSE default

\* s.split(sep) for a one-character separator
RECURSIVE SplitOn(_, _)
SplitOn(s, sep) ==
    IF \A i \in DOMAIN s : s[i] # sep THEN <<s>>
    ELSE LET k == CHOOSE i \in DOMAIN s : s[i] = sep /\ \A j \in 1..(i - 1) : s[j] # sep
         IN  <<SubSeq(s, 1, k - 1)>> \o SplitOn(SubSeq(s, k + 1, Len(s)), sep)

\* [x for x in s.split() if x]: the whitespace-separated words of s
Words(s) == SelectSeq(SplitOn(s, " "), LAMBDA w : w # <<>>)

Digits == {"0","1","2","3","4","5","6","7","8","9"}

\* number of leading digits of s
LeadingDigits(s) ==
    IF s = <<>> \/ s[1] \notin Digits THEN 0
    ELSE CHOOSE n \in 1..Len(s) :
           /\ \A i \in 1..n : s[i] \in Digits
           /\ (n = Len(s) \/ s[n + 1] \notin Digits)

\* re.match(r'^\d+\.\d+', s)
MatchesVersion(s) ==
    LET n == LeadingDigits(s)
    IN  n >= 1 /\ Len(s) >= n + 2 /\ s[n + 1] = "." /\ s[n + 2] \in Digits

\* the classification without .lower()
classify_casesensitive(p) ==
    IF StartsWith(p, <<"w","i","n">>) THEN "win"
    ELSE IF StartsWith(p, <<"d","a","r","w","i","n">>) THEN "osx"
    ELSE "unix"

\* the classification of sys.platform at the head of build_extension
classify(p) ==
    IF StartsWith(Lower(p), <<"w","i","n">>) THEN "win"
    ELSE IF StartsWith(Lower(p), <<"d","a","r","w","i","n">>) THEN "osx"
    ELSE "unix"

\* paths computed inside the with block
src_path(t) == t \o <<"src">>
libswat_root == EnvGet(environ, "LIBSWAT_ROOT", LIBSWAT_ROOT)
root_path(t) == src_path(t) \o libswat_root
libswat_a(t) == src_path(t) \o <<"libswat.a">>
pyswat_c(t) == src_path(t) \o <<"pyswat.c">>

\* one entry of the command log: what _check_call hands to
\* subprocess.check_call (env is the argument, subenv the mapping the
\* subprocess receives), the staging directories existing at that moment,
\* and, for a link step, the build description it is given
Entry(step, cmd, dir, e, out, given) ==
    [step |-> step, cmd |-> cmd, cwd |-> dir, env |-> e,
     subenv |-> DictMerge(environ, e), out |-> out, staged |-> dirs,
     given |-> given]

\* _check_call(cmd, cwd, env)
check_call(step, cmd, dir, e, out) ==
    cmdlog' = Append(cmdlog, Entry(step, cmd, dir, e, out, NewExtension))

\* the _tmpdir context manager without its try/finally: the workspace is
\* removed only when the with block ends without an error
tmpdir_exit_nofinally(ds, log, t, raising) ==
    IF raising THEN [dirs |-> ds, log |-> log]
    ELSE [dirs |-> ds \ {t}, log |-> Append(log, t)]

\* the exit of the _tmpdir context manager: shutil.rmtree(tempdir,
\* onerror=err) in the finally clause, whether the with block returns or
\* raises (err makes a read-only entry writable and removes it again)
tmpdir_exit(ds, log, t, raising) ==
    [dirs |-> ds \ {t}, log |-> Append(log, t)]

\* build_extension ends before the with block is entered
Leave(res) ==
    /\ pc' = "idle"
    /\ result' = res
    /\ UNCHANGED <<tempdir, env, ext, dirs, created, rmtree_log>>

\* build_extension leaves the with block, by return or by an error
LeaveScope(res) ==
    LET x == tmpdir_exit(dirs, rmtree_log, tempdir, res.outcome = "raised")
    IN  /\ dirs' = x.dirs
        /\ rmtree_log' = x.log
        /\ tempdir' = <<>>
        /\ env' = EmptyDict
        /\ pc' = "idle"
        /\ result' = res
        /\ UNCHANGED <<platform, created>>

Raised(err, hint) == [outcome |-> "raised", err |-> err, hint |-> hint]
Returned == [outcome |-> "returned", err |-> "", hint |-> ""]

\* build_extension is invoked: the probe "go version".  A non-zero exit
\* status becomes the RuntimeError with the hint; any other error of
\* subprocess.check_call is not caught.
ProbeGo ==
    /\ pc = "idle"
    /\ builds < MaxBuilds
    /\ builds' = builds + 1
    /\ platform' = ""
    /\ \E out \in Outcomes :
         /\ cmdlog' = <<Entry("go_version", <<<<"go">>, <<"version">>>>, cwd, EmptyDict,
                              out, NewExtension)>>
         /\ IF out = "ok"
            THEN /\ pc' = "swig_version"
                 /\ result' = NoResult
                 /\ UNCHANGED <<tempdir, env, ext, dirs, created, rmtree_log>>
            ELSE IF out = "nonzero"
            THEN Leave(Raised("RuntimeError", "https://golang.org"))
            ELSE Leave(Raised(SubprocessError(out), ""))
    /\ UNCHANGED gcc_exists
    /\ UNCHANGED host_vars
    /\ UNCHANGED bridge_vars

\* an initial env dict that keeps the host's GOPATH when it has one
initial_env_hostgopath(t) ==
    [k \in {"GOPATH", "GO111MODULE"} |->
       IF k = "GOPATH" THEN EnvGet(environ, "GOPATH", t) ELSE <<"auto">>]

\* env = {'GOPATH': tempdir, 'GO111MODULE': 'auto'}
initial_env(t) ==
    [k \in {"GOPATH", "GO111MODULE"} |-> IF k = "GOPATH" THEN t ELSE <<"auto">>]

\* the probe "swig -version"; when it succeeds: the platform
\* classification, tempfile.mkdtemp(), os.makedirs(src_path) and the
\* initial env dict
ProbeSwig ==
    /\ pc = "swig_version"
    /\ \E out \in Outcomes :
         /\ check_call("swig_version", <<<<"swig">>, <<"-version">>>>, cwd, EmptyDict, out)
         /\ IF out = "ok"
            THEN LET t == <<"tmp", ToString(created + 1)>>
                 IN  /\ platform' = classify(sys_platform)
                     /\ created' = created + 1
                     /\ tempdir' = t
                     /\ dirs' = dirs \cup {t}
                     /\ env' = initial_env(t)
                     /\ pc' = "fetch1"
                     /\ UNCHANGED <<ext, rmtree_log, result>>
            ELSE /\ UNCHANGED platform
                 /\ IF out = "nonzero"
                    THEN Leave(Raised("RuntimeError", "http://www.swig.org"))
                    ELSE Leave(Raised(SubprocessError(out), ""))
    /\ UNCHANGED <<builds, gcc_exists>>
    /\ UNCHANGED host_vars
    /\ UNCHANGED bridge_vars

\* the command line of the dependency fetch
go_get_cmd ==
    <<<<"go">>, <<"get">>, <<"-d">>>>
      \o Words(EnvGet(environ, "GO_GET_FLAGS", GO_GET_FLAGS))
      \o <<libswat_root>>

\* the first "go get -d": every error is swallowed
Fetch1 ==
    /\ pc = "fetch1"
    /\ \E out \in Outcomes :
         check_call("go_get", go_get_cmd, src_path(tempdir), env, out)
    /\ pc' = "fetch2"
    /\ UNCHANGED <<builds, platform, tempdir, env, ext, dirs, created, rmtree_log,
                   result, gcc_exists>>
    /\ UNCHANGED host_vars
    /\ UNCHANGED bridge_vars

\* the env additions of the osx profile
osx_env(e) ==
    LET plat == SplitOn(EnvGet(environ, "PLAT", <<"-","1","0",".","7","-">>), "-")
        e1 == IF Len(plat) > 1 /\ MatchesVersion(plat[2])
              THEN DictSet(e, "MACOSX_DEPLOYMENT_TARGET", plat[2])
              ELSE e
    IN  IF gcc_exists THEN DictSet(e1, "CC", <<"usr", "bin", "gcc">>) ELSE e1

\* the second "go get -d" as a retry: run only when the first failed
Fetch2_retry ==
    /\ pc = "fetch2"
    /\ IF cmdlog[Len(cmdlog)].out = "ok"
       THEN UNCHANGED cmdlog
       ELSE \E out \in Outcomes :
              check_call("go_get", go_get_cmd, src_path(tempdir), env, out)
    /\ env' = IF platform = "osx" THEN osx_env(env) ELSE env
    /\ pc' = "swig"
    /\ UNCHANGED <<builds, platform, tempdir, ext, dirs, created, rmtree_log,
                   result, gcc_exists>>
    /\ UNCHANGED host_vars
    /\ UNCHANGED bridge_vars

\* the second "go get -d" without its try/except: a failure leaves the
\* with block
Fetch2_fatal ==
    /\ pc = "fetch2"
    /\ \E out \in Outcomes :
         /\ check_call("go_get", go_get_cmd, src_path(tempdir), env, out)
         /\ IF out = "ok"
            THEN /\ env' = IF platform = "osx" THEN osx_env(env) ELSE env
                 /\ pc' = "swig"
                 /\ UNCHANGED <<platform, tempdir, dirs, created, rmtree_log, result>>
            ELSE LeaveScope(Raised(SubprocessError(out), ""))
    /\ UNCHANGED <<builds, ext, gcc_exists>>
    /\ UNCHANGED host_vars
    /\ UNCHANGED bridge_vars

\* the second "go get -d", run whatever the first did; every error is
\* swallowed; then the osx additions to env
Fetch2 ==
    /\ pc = "fetch2"
    /\ \E out \in Outcomes :
         check_call("go_get", go_get_cmd, src_path(tempdir), env, out)
    /\ env' = IF platform = "osx" THEN osx_env(env) ELSE env
    /\ pc' = "swig"
    /\ UNCHANGED <<builds, platform, tempdir, ext, dirs, created, rmtree_log,
                   result, gcc_exists>>
    /\ UNCHANGED host_vars
    /\ UNCHANGED bridge_vars

\* the interface generator wrapped in try/except like the fetch: a failure
\* is swallowed and the build goes on
Swig_swallow ==
    /\ pc = "swig"
    /\ \E out \in Outcomes :
         check_call("swig",
                    <<<<"swig">>, <<"-outdir">>, src_path(tempdir), <<"-python">>,
                      <<"-builtin">>, <<"-module">>, <<"pyswat">>, <<"-o">>,
                      pyswat_c(tempdir), root_path(tempdir) \o <<"swat.i">>>>,
                    root_path(tempdir), env, out)
    /\ ext' = [ext EXCEPT !.sources = Append(@, pyswat_c(tempdir))]
    /\ pc' = "go_build"
    /\ UNCHANGED <<platform, tempdir, env, dirs, created, rmtree_log, result>>
    /\ UNCHANGED <<builds, gcc_exists>>
    /\ UNCHANGED host_vars
    /\ UNCHANGED bridge_vars

\* the interface generator; when it succeeds the generated source is
\* appended to ext.sources
Swig ==
    /\ pc = "swig"
    /\ \E out \in Outcomes :
         /\ check_call("swig",
                       <<<<"swig">>, <<"-outdir">>, src_path(tempdir), <<"-python">>,
                         <<"-builtin">>, <<"-module">>, <<"pyswat">>, <<"-o">>,
                         pyswat_c(tempdir), root_path(tempdir) \o <<"swat.i">>>>,
                       root_path(tempdir), env, out)
         /\ IF out = "ok"
            THEN /\ ext' = [ext EXCEPT !.sources = Append(@, pyswat_c(tempdir))]
                 /\ pc' = "go_build"
                 /\ UNCHANGED <<platform, tempdir, env, dirs, created, rmtree_log, result>>
            ELSE /\ LeaveScope(Raised(SubprocessError(out), ""))
                 /\ UNCHANGED ext
    /\ UNCHANGED <<builds, gcc_exists>>
    /\ UNCHANGED host_vars
    /\ UNCHANGED bridge_vars

\* the warning-suppression flags appended to ext.extra_compile_args
WarningFlags ==
    <<"-Wno-unused-variable", "-Wno-unused-label", "-Wno-unused-function",
      "-Wno-visibility", "-Wno-strict-prototypes">>

\* if x not in xs: xs.append(x)
AppendIfAbsent(xs, x) ==
    IF \E i \in DOMAIN xs : xs[i] = x THEN xs ELSE Append(xs, x)

\* the additions to the build description after the archive is built
describe(e, t) ==
    [e EXCEPT !.extra_compile_args = @ \o WarningFlags,
              !.include_dirs = AppendIfAbsent(@, root_path(t)),
              !.extra_link_args = AppendIfAbsent(@, libswat_a(t))]

\* the archive compile retried once on failure, the failure of the first
\* attempt swallowed
GoBuild_retry ==
    /\ pc = "go_build"
    /\ \E out \in Outcomes :
         /\ check_call("go_build",
                       <<<<"go">>, <<"build">>, <<"-buildmode=c-archive">>>>
                         \o Words(EnvGet(environ, "GO_BUILD_FLAGS", GO_BUILD_FLAGS))
                         \o <<<<"-o">>, libswat_a(tempdir)>>,
                       root_path(tempdir), env, out)
         /\ IF out = "ok"
            THEN /\ ext' = describe(ext, tempdir)
                 /\ pc' = IF platform = "win" THEN "gcc_link" ELSE "std_link"
                 /\ UNCHANGED <<platform, tempdir, env, dirs, created, rmtree_log, result>>
            ELSE IF \A i \in DOMAIN cmdlog : cmdlog[i].step # "go_build"
            THEN UNCHANGED <<pc, ext, platform, tempdir, env, dirs, created,
                             rmtree_log, result>>
            ELSE /\ LeaveScope(Raised(SubprocessError(out), ""))
                 /\ UNCHANGED ext
    /\ UNCHANGED <<builds, gcc_exists>>
    /\ UNCHANGED host_vars
    /\ UNCHANGED bridge_vars

\* the archive compile with the with block ending before the link step:
\* the workspace is removed as soon as the archive is built
GoBuild_release_early ==
    /\ pc = "go_build"
    /\ \E out \in Outcomes :
         /\ check_call("go_build",
                       <<<<"go">>, <<"build">>, <<"-buildmode=c-archive">>>>
                         \o Words(EnvGet(environ, "GO_BUILD_FLAGS", GO_BUILD_FLAGS))
                         \o <<<<"-o">>, libswat_a(tempdir)>>,
                       root_path(tempdir), env, out)
         /\ IF out = "ok"
            THEN /\ ext' = describe(ext, tempdir)
                 /\ pc' = IF platform = "win" THEN "gcc_link" ELSE "std_link"
                 /\ dirs' = dirs \ {tempdir}
                 /\ rmtree_log' = Append(rmtree_log, tempdir)
                 /\ UNCHANGED <<platform, tempdir, env, created, result>>
            ELSE /\ LeaveScope(Raised(SubprocessError(out), ""))
                 /\ UNCHANGED ext
    /\ UNCHANGED <<builds, gcc_exists>>
    /\ UNCHANGED host_vars
    /\ UNCHANGED bridge_vars

\* "go build -buildmode=c-archive"; when it succeeds the build description
\* is extended and the link strategy is chosen by the platform
GoBuild ==
    /\ pc = "go_build"
    /\ \E out \in Outcomes :
         /\ check_call("go_build",
                       <<<<"go">>, <<"build">>, <<"-buildmode=c-archive">>>>
                         \o Words(EnvGet(environ, "GO_BUILD_FLAGS", GO_BUILD_FLAGS))
                         \o <<<<"-o">>, libswat_a(tempdir)>>,
                       root_path(tempdir), env, out)
         /\ IF out = "ok"
            THEN /\ ext' = describe(ext, tempdir)
                 /\ pc' = IF platform = "win" THEN "gcc_link" ELSE "std_link"
                 /\ UNCHANGED <<platform, tempdir, env, dirs, created, rmtree_log, result>>
            ELSE /\ LeaveScope(Raised(SubprocessError(out), ""))
                 /\ UNCHANGED ext
    /\ UNCHANGED <<builds, gcc_exists>>
    /\ UNCHANGED host_vars
    /\ UNCHANGED bridge_vars

\* the command line of the manual link of the win profile
\* (self.compiler.include_dirs is empty)
gcc_cmd(e) ==
    <<<<"gcc">>>> \o e.sources \o e.extra_link_args
      \o <<<<"-D">>, <<"MS_WIN64">>, <<"-O2">>>>
      \o [i \in DOMAIN e.include_dirs |-> <<"-I">> \o e.include_dirs[i]]
      \o [i \in DOMAIN e.extra_compile_args |-> <<e.extra_compile_args[i]>>]
      \o <<<<"-L">> \o prefix \o <<"libs">>, <<"-lpython">>>>
      \o <<<<"-fpic">>, <<"-shared">>, <<"-o">>, cwd \o <<"_pyswat">>>>

\* win: the manual gcc link without the "return" after it: the standard
\* step follows
ManualLink_fallthrough ==
    /\ pc = "gcc_link"
    /\ \E out \in Outcomes :
         /\ cmdlog' = Append(cmdlog, Entry("gcc_link", gcc_cmd(ext), cwd, env, out, ext))
         /\ IF out = "ok"
            THEN /\ pc' = "std_link"
                 /\ UNCHANGED <<platform, tempdir, env, dirs, created, rmtree_log, result>>
            ELSE LeaveScope(Raised(SubprocessError(out), ""))
    /\ UNCHANGED <<builds, ext, gcc_exists>>
    /\ UNCHANGED host_vars
    /\ UNCHANGED bridge_vars

\* win: the manual gcc link, then "return"
ManualLink ==
    /\ pc = "gcc_link"
    /\ \E out \in Outcomes :
         /\ cmdlog' = Append(cmdlog, Entry("gcc_link", gcc_cmd(ext), cwd, env, out, ext))
         /\ IF out = "ok"
            THEN LeaveScope(Returned)
            ELSE LeaveScope(Raised(SubprocessError(out), ""))
    /\ UNCHANGED <<builds, ext, gcc_exists>>
    /\ UNCHANGED host_vars
    /\ UNCHANGED bridge_vars

\* osx, unix: build_ext.build_extension(self, ext), which compiles and
\* links the description or raises a build error
StdLink ==
    /\ pc = "std_link"
    /\ \E out \in {"ok", "failed"} :
         /\ cmdlog' = Append(cmdlog, Entry("std_link", <<<<"build_ext.build_extension">>>>,
                                           cwd, EmptyDict, out, ext))
         /\ IF out = "ok"
            THEN LeaveScope(Returned)
            ELSE LeaveScope(Raised("BuildError", ""))
    /\ UNCHANGED <<builds, ext, gcc_exists>>
    /\ UNCHANGED host_vars
    /\ UNCHANGED bridge_vars

\* values of PLAT, GOPATH and GO_GET_FLAGS in the host environment
HostEnvs ==
    {EmptyDict,
     [k \in {"GOPATH"} |-> <<"home", "go">>],
     [k \in {"PLAT"} |-> <<"x","-","1","0",".","9","-","y">>],
     [k \in {"PLAT", "GOPATH"} |->
        IF k = "PLAT" THEN <<"l","i","n","u","x">> ELSE <<"home", "go">>],
     [k \in {"GO_GET_FLAGS"} |-> <<"-","u"," "," ","-","v">>]}

\* the bridge before swat.clib is imported
BridgeStart ==
    /\ bpc = "start"
    /\ ext_state = "ok"
    /\ _pyswat_loaded = FALSE
    /\ _pyswat = "unbound"
    /\ load_attempts = 0
    /\ set_tkpath_env = FALSE
    /\ tk_args = <<>>
    /\ tk_before = EmptyDict
    /\ last = NoCall

InitBuild ==
    /\ sys_platform \in PlatformStrings
    /\ machine = x86_64
    /\ environ \in HostEnvs
    /\ BridgeStart
    /\ pc = "idle"
    /\ builds = 0
    /\ platform = ""
    /\ tempdir = <<>>
    /\ env = EmptyDict
    /\ ext = NewExtension
    /\ dirs = {}
    /\ created = 0
    /\ rmtree_log = <<>>
    /\ cmdlog = <<>>
    /\ result = NoResult
    /\ gcc_exists \in BOOLEAN

NextBuild ==
    \/ ProbeGo
    \/ ProbeSwig
    \/ Fetch1
    \/ Fetch2
    \/ Swig
    \/ GoBuild
    \/ ManualLink
    \/ StdLink

SpecBuild == InitBuild /\ [][NextBuild]_vars

-----------------------------------------------------------------------------
(* Properties of setup.py, checked under SpecBuild.                        *)

\* the entries of the command log made by one step
Ran(step) == SelectSeq(cmdlog, LAMBDA e : e.step = step)

\* the invocation has passed the dependency fetch
PastFetch == pc \in {"swig", "go_build", "gcc_link", "std_link"} \/ Len(Ran("swig")) > 0

NoDuplicates(xs) == \A i, j \in DOMAIN xs : xs[i] = xs[j] => i = j

\* C5 (as claimed): the fetch command is invoked once, and a second time,
\* with identical arguments, if and only if the first invocation failed;
\* never more than twice in one build.
C5_FetchRetriedIffFailed ==
    LET g == Ran("go_get")
    IN  /\ Len(g) <= 2
        /\ Len(g) = 2 =>
              /\ g[1].out # "ok"
              /\ g[2].cmd = g[1].cmd /\ g[2].cwd = g[1].cwd /\ g[2].env = g[1].env
        /\ (PastFetch /\ g[1].out # "ok") => Len(g) = 2
        /\ PastFetch => Len(g) >= 1

\* C5 (amended): in every build that passes the toolchain probes the fetch
\* command is invoked exactly twice, with identical arguments, whatever the
\* first invocation did; never more than twice in one build.
C5_FetchInvokedTwice ==
    LET g == Ran("go_get")
    IN  /\ Len(g) <= 2
        /\ Len(g) = 2 =>
              (g[2].cmd = g[1].cmd /\ g[2].cwd = g[1].cwd /\ g[2].env = g[1].env)
        /\ PastFetch => Len(g) = 2
        /\ pc = "fetch2" => Len(g) = 1
        /\ pc = "fetch1" => Len(g) = 0

\* the first fetch succeeded and the fetch ran a second time
C5_Witness ==
    /\ pc = "swig"
    /\ Len(Ran("go_get")) = 2
    /\ Ran("go_get")[1].out = "ok"

\* C6: a failed fetch never aborts the build: after a failure of either
\* attempt the pipeline goes on to the interface generator, and the error
\* build_extension raises, if any, is not the fetch's.
C6_FetchFailureNeverAborts ==
    /\ \A i \in DOMAIN cmdlog :
         (cmdlog[i].step = "go_get" /\ cmdlog[i].out # "ok") =>
            \/ pc \in {"fetch2", "swig"}
            \/ \E j \in DOMAIN cmdlog : j > i /\ cmdlog[j].step = "swig"
    /\ (pc = "idle" /\ result.outcome = "raised") =>
         cmdlog[Len(cmdlog)].step # "go_get"

\* both fetch attempts failed, the generator ran and the build returned
C6_Witness ==
    /\ pc = "idle"
    /\ result.outcome = "returned"
    /\ Len(Ran("go_get")) = 2
    /\ Ran("go_get")[1].out = "nonzero"
    /\ Ran("go_get")[2].out = "notfound"
    /\ Len(Ran("swig")) = 1

\* C7: every staging workspace acquired is released exactly once on every
\* exit of the build step; after build_extension returns or raises no
\* staging directory it created exists.
C7_WorkspaceReleasedOnce ==
    /\ NoDuplicates(rmtree_log)
    /\ pc = "idle" => (dirs = {} /\ Len(rmtree_log) = created)
    /\ tempdir # <<>> =>
         (dirs = {tempdir} /\ Len(rmtree_log) = created - 1
            /\ \A i \in DOMAIN rmtree_log : rmtree_log[i] # tempdir)

\* the manual link of the second build failed, and both workspaces are gone
C7_Witness ==
    /\ pc = "idle"
    /\ result.outcome = "raised"
    /\ cmdlog[Len(cmdlog)].step = "gcc_link"
    /\ created = 2
    /\ rmtree_log = << <<"tmp", "1">>, <<"tmp", "2">> >>
    /\ dirs = {}

\* C8: a toolchain probe that exits non-zero, or whose binary cannot be
\* located, makes the build fail with the RuntimeError carrying the
\* remediation hint; no workspace is created and no later command runs.
C8_ToolchainMissing ==
    \A i \in DOMAIN cmdlog :
        (cmdlog[i].step \in {"go_version", "swig_version"} /\ cmdlog[i].out # "ok") =>
            /\ pc = "idle"
            /\ i = Len(cmdlog)
            /\ result.outcome = "raised"
            /\ result.err = "RuntimeError"
            /\ result.hint # ""
            /\ tempdir = <<>>
            /\ dirs = {}
            /\ cmdlog[i].staged = {}

\* C9: after any number of build_extension invocations on the same build
\* description no compile flag, include directory, source path or link
\* argument occurs more than once in its lists.
C9_AppendIdempotent ==
    /\ NoDuplicates(ext.sources)
    /\ NoDuplicates(ext.extra_compile_args)
    /\ NoDuplicates(ext.include_dirs)
    /\ NoDuplicates(ext.extra_link_args)

\* the steps that link the extension module
LinkSteps == {"gcc_link", "std_link"}

\* C12 (as claimed): the link step is reached, and an extension module
\* produced, only in builds where every earlier step exited successfully:
\* both probes, the dependency fetch, the generator and the archive compile.
C12_LinkOnlyAfterAllSucceeded ==
    /\ \A i \in DOMAIN cmdlog :
         cmdlog[i].step \in LinkSteps =>
            \A j \in 1..(i - 1) : cmdlog[j].out = "ok"
    /\ pc \in LinkSteps => \A j \in DOMAIN cmdlog : cmdlog[j].out = "ok"

\* C12 (amended): the link step is reached, and an extension module
\* produced, only in builds where both probes, the generator and the
\* archive compile exited successfully, each run once and in that order
\* around the two fetch attempts; the exit status of the fetch attempts is
\* not a precondition.
C12_LinkOnlyAfterFatalStepsSucceeded ==
    LET Before(n) == [j \in 1..n |-> cmdlog[j].step]
        Ok(n) == \A j \in 1..n : cmdlog[j].step # "go_get" => cmdlog[j].out = "ok"
        Pipeline == <<"go_version", "swig_version", "go_get", "go_get", "swig", "go_build">>
    IN  /\ \A i \in DOMAIN cmdlog :
             cmdlog[i].step \in LinkSteps => (Before(i - 1) = Pipeline /\ Ok(i - 1))
        /\ pc \in LinkSteps => (Before(Len(cmdlog)) = Pipeline /\ Ok(Len(cmdlog)))
        /\ (pc = "idle" /\ result.outcome = "returned") =>
             (/\ Len(cmdlog) = 7
              /\ cmdlog[7].step \in LinkSteps
              /\ cmdlog[7].out = "ok")

\* both fetch attempts failed and the build still linked and returned
C12_Witness ==
    /\ pc = "idle"
    /\ result.outcome = "returned"
    /\ cmdlog[3].out = "nonzero"
    /\ cmdlog[4].out = "nonzero"
    /\ cmdlog[7].step = "std_link"

\* C13: the platform classification is total and deterministic: every raw
\* platform string yields exactly one of win, osx, unix; a string starting,
\* in any letter case, with "win" yields win, otherwise one starting with
\* "darwin" yields osx, otherwise unix; the profile is a function of the
\* string alone.
C13_ClassificationTotal ==
    LET Is(i, lo, up) == sys_platform[i] \in {lo, up}
        w == /\ Len(sys_platform) >= 3
             /\ Is(1, "w", "W") /\ Is(2, "i", "I") /\ Is(3, "n", "N")
        d == /\ Len(sys_platform) >= 6
             /\ Is(1, "d", "D") /\ Is(2, "a", "A") /\ Is(3, "r", "R")
             /\ Is(4, "w", "W") /\ Is(5, "i", "I") /\ Is(6, "n", "N")
    IN  /\ pc \notin {"idle", "swig_version"} => platform # ""
        /\ platform # "" =>
             /\ platform \in {"win", "osx", "unix"}
             /\ w => platform = "win"
             /\ (~w /\ d) => platform = "osx"
             /\ (~w /\ ~d) => platform = "unix"

\* a platform string that starts with "Win" was classified as win
C13_Witness ==
    /\ sys_platform = Win32
    /\ platform = "win"
    /\ pc = "gcc_link"

\* C14: interface generation and archive compilation are fatal and never
\* retried: each runs at most once per build; after a failed generator no
\* archive compile and no link step runs, after a failed archive compile no
\* link step runs, and the subprocess error leaves build_extension.
C14_GeneratorAndCompileFatal ==
    /\ Len(Ran("swig")) <= 1
    /\ Len(Ran("go_build")) <= 1
    /\ \A i \in DOMAIN cmdlog :
         (cmdlog[i].step \in {"swig", "go_build"} /\ cmdlog[i].out # "ok") =>
            /\ i = Len(cmdlog)
            /\ pc = "idle"
            /\ result.outcome = "raised"
            /\ cmdlog[i].out = "nonzero" => result.err = "CalledProcessError"
            /\ cmdlog[i].out = "notfound" => result.err = "OSError"

\* the archive compile exited non-zero: nothing ran after it and
\* build_extension raised CalledProcessError
C14_Witness ==
    /\ pc = "idle"
    /\ Len(cmdlog) = 6
    /\ cmdlog[6].step = "go_build"
    /\ cmdlog[6].out = "nonzero"
    /\ result.err = "CalledProcessError"

\* C15: the two link strategies are mutually exclusive and chosen by the
\* platform profile alone: on win the manual gcc command is the only link
\* action, on osx and unix the standard step is; no build runs both and no
\* successful build runs neither.
C15_LinkStrategiesExclusive ==
    /\ Len(Ran("gcc_link")) + Len(Ran("std_link")) <= 1
    /\ (pc = "gcc_link" \/ Len(Ran("gcc_link")) > 0) =>
         (platform = "win" /\ pc # "std_link" /\ Len(Ran("std_link")) = 0)
    /\ (pc = "std_link" \/ Len(Ran("std_link")) > 0) =>
         (platform \in {"osx", "unix"} /\ pc # "gcc_link" /\ Len(Ran("gcc_link")) = 0)
    /\ (pc = "idle" /\ result.outcome = "returned") =>
         /\ Len(Ran("gcc_link")) + Len(Ran("std_link")) = 1
         /\ platform = "win" => Len(Ran("gcc_link")) = 1
         /\ platform \in {"osx", "unix"} => Len(Ran("std_link")) = 1

\* a win build returned after the manual link alone
C15_Witness ==
    /\ pc = "idle"
    /\ result.outcome = "returned"
    /\ platform = "win"
    /\ Len(Ran("gcc_link")) = 1
    /\ Len(Ran("std_link")) = 0

\* C17: no step of build_extension changes os.environ, on any exit path;
\* and the mapping a command run by _check_call receives has the keys of
\* os.environ and of the env argument, with the env argument's value on
\* the keys it has and the value of os.environ on the others.
C17_HostEnvironmentUntouched ==
    /\ [][environ' = environ]_vars
    /\ [](\A i \in DOMAIN cmdlog :
            cmdlog[i].step # "std_link" =>
              /\ DOMAIN cmdlog[i].subenv = DOMAIN environ \cup DOMAIN cmdlog[i].env
              /\ \A k \in DOMAIN cmdlog[i].subenv :
                   cmdlog[i].subenv[k] = IF k \in DOMAIN cmdlog[i].env
                                         THEN cmdlog[i].env[k]
                                         ELSE environ[k])

\* a build on a host that sets GOPATH ended with an error after the fetch
\* received the workspace, not the host's value, as GOPATH
C17_Witness ==
    /\ pc = "idle"
    /\ result.outcome = "raised"
    /\ Len(cmdlog) >= 3
    /\ "GOPATH" \in DOMAIN environ
    /\ cmdlog[3].subenv["GOPATH"] = cmdlog[3].env["GOPATH"]
    /\ cmdlog[3].subenv["GOPATH"] # environ["GOPATH"]

\* the commands run inside the with block through _check_call
ScopedSteps == {"go_get", "swig", "go_build", "gcc_link"}

\* C18: every command run after the workspace is created (both fetches,
\* swig, the archive compile, the manual gcc link) receives as GOPATH the
\* workspace of the running build, whatever GOPATH the host sets; and the
\* env argument of a command carries MACOSX_DEPLOYMENT_TARGET or CC only on
\* the osx profile and only for a command run after the two fetches.
C18_ToolchainIsolation ==
    \A i \in DOMAIN cmdlog :
        /\ cmdlog[i].step \in ScopedSteps =>
             /\ "GOPATH" \in DOMAIN cmdlog[i].subenv
             /\ cmdlog[i].subenv["GOPATH"] = <<"tmp", ToString(created)>>
             /\ cmdlog[i].subenv["GOPATH"] \in cmdlog[i].staged
        /\ ("MACOSX_DEPLOYMENT_TARGET" \in DOMAIN cmdlog[i].env
              \/ "CC" \in DOMAIN cmdlog[i].env) =>
             /\ platform = "osx"
             /\ cmdlog[i].step \in {"swig", "go_build"}
             /\ Len(Ran("go_get")) = 2
             /\ \A j \in DOMAIN cmdlog : cmdlog[j].step = "go_get" => j < i

\* an osx build on a host that sets GOPATH: the archive compile received
\* the workspace as GOPATH and the compiler override, the fetch before it
\* did not receive the override
C18_Witness ==
    /\ platform = "osx"
    /\ "GOPATH" \in DOMAIN environ
    /\ Len(cmdlog) >= 6
    /\ cmdlog[6].step = "go_build"
    /\ cmdlog[6].subenv["GOPATH"] = <<"tmp", ToString(created)>>
    /\ cmdlog[6].subenv["GOPATH"] # environ["GOPATH"]
    /\ "CC" \in DOMAIN cmdlog[6].env
    /\ "MACOSX_DEPLOYMENT_TARGET" \in DOMAIN cmdlog[6].env
    /\ "CC" \notin DOMAIN cmdlog[4].env

\* the paths of a build description that a link step reads
LinkPaths(e) ==
    {e.sources[i] : i \in DOMAIN e.sources}
      \cup {e.include_dirs[i] : i \in DOMAIN e.include_dirs}
      \cup {e.extra_link_args[i] : i \in DOMAIN e.extra_link_args}

\* C19: over any sequence of build_extension invocations on the same
\* Extension, every source path, include directory and link argument given
\* to a link step lies inside the workspace of the running build, and none
\* lies inside a workspace that has been removed.
C19_LinkPathsInLiveWorkspace ==
    \A i \in DOMAIN cmdlog :
        cmdlog[i].step \in LinkSteps =>
            \A path \in LinkPaths(cmdlog[i].given) :
                /\ StartsWith(path, <<"tmp", ToString(created)>>)
                /\ \E d \in cmdlog[i].staged : StartsWith(path, d)

\* the same property for the first invocation on a new Extension
C19_FirstBuildPathsInWorkspace ==
    builds = 1 => C19_LinkPathsInLiveWorkspace

\* the workspace of the running (or last) build
Workspace == <<"tmp", ToString(created)>>

\* the command with the given step of this invocation exited with status 0
\* while the workspace existed
Produced(step) ==
    \E j \in DOMAIN cmdlog :
        cmdlog[j].step = step /\ cmdlog[j].out = "ok" /\ Workspace \in cmdlog[j].staged

\* C20: every step runs one command to its end before the next starts; the
\* workspace is removed only in the step in which the last command of the
\* build (the link step included) ends; no command inside the with block
\* starts when the workspace is gone; and when a link step runs, swig and
\* the archive compile have written the generated source and the archive
\* into the workspace, which still exists.
C20_ReleaseAfterLastCommand ==
    /\ [][/\ cmdlog' = Append(cmdlog, cmdlog'[Len(cmdlog')]) \/ Len(cmdlog') = 1
          /\ rmtree_log' # rmtree_log =>
               /\ rmtree_log' = Append(rmtree_log, Workspace)
               /\ Workspace \in dirs
               /\ Workspace \in cmdlog'[Len(cmdlog')].staged
               /\ pc' = "idle"
          /\ pc' # "idle" => rmtree_log' = rmtree_log]_vars
    /\ [](/\ \A i \in DOMAIN cmdlog :
              cmdlog[i].step \in ScopedSteps \cup LinkSteps =>
                  /\ Workspace \in cmdlog[i].staged
                  /\ \A k \in DOMAIN rmtree_log :
                       rmtree_log[k] = Workspace => (pc = "idle" /\ k = Len(rmtree_log))
          /\ pc \in {"fetch1", "fetch2", "swig", "go_build", "gcc_link", "std_link"} =>
               (tempdir = Workspace /\ Workspace \in dirs)
          /\ \A i \in DOMAIN cmdlog :
              cmdlog[i].step \in LinkSteps =>
                  /\ i = Len(cmdlog)
                  /\ Produced("swig")
                  /\ Produced("go_build")
                  /\ \E j \in DOMAIN cmdlog[i].given.sources :
                       cmdlog[i].given.sources[j] = pyswat_c(Workspace)
                  /\ \E j \in DOMAIN cmdlog[i].given.extra_link_args :
                       cmdlog[i].given.extra_link_args[j] = libswat_a(Workspace))

\* the standard link step of a build has ended with the workspace in place
\* when it ran, and the workspace has been removed since
C20_Witness ==
    /\ pc = "idle"
    /\ result.outcome = "returned"
    /\ cmdlog[Len(cmdlog)].step = "std_link"
    /\ Workspace \in cmdlog[Len(cmdlog)].staged
    /\ Workspace \notin dirs
    /\ rmtree_log[Len(rmtree_log)] = Workspace

=============================================================================
